---- MODULE Spec2Model ----
(***************************************************************************)
(* Model of the Ajali incident backend (src/backend/app_postresql.py and   *)
(* its near-duplicate src/backend/app_postgresql.py): the token guard, the *)
(* register / login / logout routes and the incident routes, each request  *)
(* stepping statement by statement against a PostgreSQL store whose        *)
(* connections run READ COMMITTED transactions.                            *)
(***************************************************************************)
EXTENDS Integers, Sequences, FiniteSets, TLC

VARIABLES
    users,       \* committed rows of table users
    api_tokens,  \* committed rows of table api_tokens
    incidents,   \* committed rows of table incidents
    uploads,     \* file names present in UPLOAD_FOLDER
    clock,       \* wall clock, in ticks
    nextId,      \* number of uuid4 values drawn so far
    pc,          \* per request slot: position in the handler
    req,         \* per request slot: the request being served
    token,       \* per request slot: token parsed by token_required
    loc,         \* per request slot: the handler's local variables
    tx,          \* per request slot: uncommitted writes of the handler's connection
    conns,       \* per request slot: the connections currently open
    resp,        \* per request slot: HTTP status returned (0: none yet)
    served,      \* number of requests received so far
    hist,        \* history: token rows committed by logins, in commit order
    everIds,     \* history: ids of the incidents committed so far
    budget       \* number of requests this behaviour may receive

vars == <<users, api_tokens, incidents, uploads, clock, nextId,
          pc, req, token, loc, tx, conns, resp, served, hist, everIds, budget>>

db == <<users, api_tokens, incidents>>

-----------------------------------------------------------------------------
(* Bounds of the model *)

\* requests received in one behaviour that starts from the empty database
MaxRequests == 4
\* requests received in one behaviour that starts with both users logged in
MaxGuarded == 2
\* requests received in one behaviour of a client that logs in repeatedly
MaxRelogin == 3
\* ticks the clock may move past an origin (0, or one validity window later)
Slack == 3
\* clock ticks per second: the clock is finer than the second the guard truncates to
TicksPerSecond == 2

\* two requests are served at a time.  The client of slot r1 varies the body of
\* its requests and presents a bearer token; the client of slot r2 varies the
\* Authorization header and sends the plainest body
Procs == {"r1", "r2"}
BodyClient == "r1"
HeaderClient == "r2"
Usernames == {"alice", "bob"}
Passwords == {"pw1", "pw2"}

\* Python's None, for an absent JSON key, form field or column value
None == "None"
\* the empty string
Empty == ""

UuidPool == <<"id1", "id2", "id3", "id4", "id5", "id6", "id7", "id8", "id9", "id10",
              "id11", "id12", "id13", "id14", "id15", "id16", "id17", "id18">>
\* the n-th value returned by uuid.uuid4(): fresh on every call
Uuid(n) == UuidPool[n]

-----------------------------------------------------------------------------
(* Strings that the code takes apart are sequences of atoms *)

SP == " "
BEARER == "Bearer"

RECURSIVE SplitAcc(_, _, _)
SplitAcc(s, cur, acc) ==
    IF s = <<>> THEN Append(acc, cur)
    ELSE IF Head(s) = SP THEN SplitAcc(Tail(s), <<>>, Append(acc, cur))
    ELSE SplitAcc(Tail(s), Append(cur, Head(s)), acc)

\* str.split(" ")
Split(s) == SplitAcc(s, <<>>, <<>>)

\* str(uuid): a one-atom string
Str(u) == <<u>>

-----------------------------------------------------------------------------
(* Time *)

WindowHours == 24
WindowTicks == WindowHours * 3600 * TicksPerSecond
MaxClock == WindowTicks + Slack

\* datetime.replace(microsecond=0)
Truncate(t) == t - (t % TicksPerSecond)

\* mutant: the comparison is >= instead of >
Expired_AtBoundary(now, created_at) == Truncate(now) - Truncate(created_at) >= WindowTicks

\* mutant: the age of the token is not checked
Expired_Never(now, created_at) == FALSE

\* now - created_at_aware > timedelta(hours=24)
Expired(now, created_at) == Truncate(now) - Truncate(created_at) > WindowTicks

-----------------------------------------------------------------------------
(* Passwords *)

\* generate_password_hash(password, method='scrypt')
generate_password_hash(password) == <<"scrypt", password>>
check_password_hash(pwhash, password) == pwhash = generate_password_hash(password)

-----------------------------------------------------------------------------
(* Transactions *)

NoTx == [start |-> -1, users |-> {}, tokDel |-> {}, tokIns |-> {},
         incIns |-> {}, incDel |-> {}, incUpd |-> {}, tokWait |-> {}]

\* psycopg2 begins the transaction at the first execute(); CURRENT_TIMESTAMP is
\* the transaction's start time
Begun(p) == IF tx[p].start = -1 THEN [tx[p] EXCEPT !.start = clock] ELSE tx[p]

Others(p) == Procs \ {p}

TokenLocked(p, row) == \E q \in Others(p) : row \in tx[q].tokDel
IncidentLocked(p, row) ==
    \E q \in Others(p) : row \in tx[q].incDel \/ (\E u \in tx[q].incUpd : u[1] = row)

\* image_url when there is no image (None, NULL)
NoUrl == <<>>

\* stale is history: whether the token of the request was no longer stored when
\* the handler's write was committed
\* result is the row the guard fetched, <<user_id, created_at>>
NoLoc == [user_id |-> None, image_url |-> NoUrl, incident_id |-> None, now |-> -1,
          message |-> None, stale |-> FALSE, result |-> <<>>]
NoReq == [op |-> "idle"]

Idle(p) == pc[p] = "idle"

\* slot p is free and the behaviour may receive another request
Free(p) == pc[p] = "idle" /\ served < budget

\* a request arrives at a free slot
Receive(p) ==
    /\ pc[p] = "idle"
    /\ served < budget
    /\ served' = served + 1

\* mutant: the guard has no finally block, its connection stays open
Return_GuardLeaks(p, status) ==
    /\ pc' = [pc EXCEPT ![p] = "done"]
    /\ resp' = [resp EXCEPT ![p] = status]
    /\ conns' = [conns EXCEPT ![p] = @ \ {"handler"}]
    /\ tx' = [tx EXCEPT ![p] = NoTx]

\* the response is returned and every connection of the request is closed
\* (the finally blocks); an uncommitted transaction is discarded by close()
Return(p, status) ==
    /\ pc' = [pc EXCEPT ![p] = "done"]
    /\ resp' = [resp EXCEPT ![p] = status]
    /\ conns' = [conns EXCEPT ![p] = {}]
    /\ tx' = [tx EXCEPT ![p] = NoTx]

\* the client has read the response; the slot is free for the next request
Finish(p) ==
    /\ pc[p] = "done"
    /\ pc' = [pc EXCEPT ![p] = "idle"]
    /\ req' = [req EXCEPT ![p] = NoReq]
    /\ token' = [token EXCEPT ![p] = <<>>]
    /\ loc' = [loc EXCEPT ![p] = NoLoc]
    /\ resp' = [resp EXCEPT ![p] = 0]
    /\ UNCHANGED <<served, users, api_tokens, incidents, uploads, clock, nextId, tx, conns, hist, everIds, budget>>

-----------------------------------------------------------------------------
(* POST /register *)

\* lines 170-178: the request arrives and register opens its connection
RegisterStart(p) ==
    /\ Receive(p)
    /\ \E u \in Usernames \cup {None, Empty}, w \in Passwords \cup {None} :
        /\ p # BodyClient => u \in Usernames /\ w \in Passwords
        /\ req' = [req EXCEPT ![p] = [op |-> "register", username |-> u, password |-> w]]
    /\ pc' = [pc EXCEPT ![p] = "reg_validate"]
    /\ conns' = [conns EXCEPT ![p] = {"handler"}]
    /\ UNCHANGED <<users, api_tokens, incidents, uploads, clock, nextId, token, loc, hist,
                   everIds, budget, resp, tx>>

\* lines 181-186: if not username or not password: 400
RegisterValidate(p) ==
    /\ pc[p] = "reg_validate"
    /\ IF req[p].username \in {None, Empty} \/ req[p].password \in {None, Empty}
       THEN Return(p, 400)
       ELSE /\ pc' = [pc EXCEPT ![p] = "reg_select"]
            /\ UNCHANGED <<resp, conns, tx>>
    /\ UNCHANGED <<served, users, api_tokens, incidents, uploads, clock, nextId, req, token, loc,
                   hist, everIds, budget>>

\* mutant: the existence check finds nothing
ExistingUser_Skipped(username) == {}

\* SELECT user_id FROM users WHERE username = %s
ExistingUser(username) == {r \in users : r.username = username}

\* lines 188-195: answer 409 when the username is taken
RegisterSelect(p) ==
    /\ pc[p] = "reg_select"
    /\ IF ExistingUser(req[p].username) # {}
       THEN Return(p, 409)
       ELSE /\ pc' = [pc EXCEPT ![p] = "reg_insert"]
            /\ tx' = [tx EXCEPT ![p] = Begun(p)]
            /\ UNCHANGED <<resp, conns>>
    /\ UNCHANGED <<served, users, api_tokens, incidents, uploads, clock, nextId, req, token, loc, hist, everIds, budget>>

\* INSERT INTO users ...: waits for an uncommitted insert of the same username,
\* raises a unique violation against a committed one (rollback, 500)
RegisterInsert(p) ==
    /\ pc[p] = "reg_insert"
    /\ ~ \E q \in Others(p) : \E r \in tx[q].users : r.username = req[p].username
    /\ nextId' = nextId + 1
    /\ IF \E r \in users : r.username = req[p].username
       THEN /\ Return(p, 500)
            /\ UNCHANGED loc
       ELSE /\ tx' = [tx EXCEPT ![p].users = @ \cup
                        {[user_id |-> Uuid(nextId + 1),
                          username |-> req[p].username,
                          password_hash |-> generate_password_hash(req[p].password)]}]
            /\ loc' = [loc EXCEPT ![p].user_id = Uuid(nextId + 1)]
            /\ pc' = [pc EXCEPT ![p] = "reg_commit"]
            /\ UNCHANGED <<resp, conns>>
    /\ UNCHANGED <<served, users, api_tokens, incidents, uploads, clock, req, token, hist, everIds, budget>>

\* conn.commit(); return 201
RegisterCommit(p) ==
    /\ pc[p] = "reg_commit"
    /\ users' = users \cup tx[p].users
    /\ Return(p, 201)
    /\ UNCHANGED <<served, api_tokens, incidents, uploads, clock, nextId, req, token, loc, hist, everIds, budget>>

-----------------------------------------------------------------------------
(* POST /login *)

\* lines 215-223: the request arrives and login opens its connection
LoginStart(p) ==
    /\ Receive(p)
    /\ \E u \in Usernames \cup {None}, w \in Passwords \cup {None} :
        /\ p # BodyClient => u \in Usernames /\ w \in Passwords
        /\ req' = [req EXCEPT ![p] = [op |-> "login", username |-> u, password |-> w]]
    /\ pc' = [pc EXCEPT ![p] = "login_validate"]
    /\ conns' = [conns EXCEPT ![p] = {"handler"}]
    /\ UNCHANGED <<users, api_tokens, incidents, uploads, clock, nextId, token, loc, hist,
                   everIds, budget, resp, tx>>

\* lines 226-231: if not username or not password: 400
LoginValidate(p) ==
    /\ pc[p] = "login_validate"
    /\ IF req[p].username \in {None, Empty} \/ req[p].password \in {None, Empty}
       THEN Return(p, 400)
       ELSE /\ pc' = [pc EXCEPT ![p] = "login_select"]
            /\ UNCHANGED <<resp, conns, tx>>
    /\ UNCHANGED <<served, users, api_tokens, incidents, uploads, clock, nextId, req, token, loc,
                   hist, everIds, budget>>

\* the message of login's 401 response
InvalidLogin == "Invalid username or password."

\* mutant: an unknown username gets a message of its own
LoginSelect_Telling(p) ==
    /\ pc[p] = "login_select"
    /\ LET user_data == {r \in users : r.username = req[p].username} IN
       IF user_data = {}
       THEN /\ Return(p, 401)
            /\ loc' = [loc EXCEPT ![p].message = "User not found."]
       ELSE IF \A r \in user_data : ~ check_password_hash(r.password_hash, req[p].password)
       THEN /\ Return(p, 401)
            /\ loc' = [loc EXCEPT ![p].message = InvalidLogin]
       ELSE /\ \E r \in user_data : loc' = [loc EXCEPT ![p].user_id = r.user_id]
            /\ pc' = [pc EXCEPT ![p] = "login_delete"]
            /\ tx' = [tx EXCEPT ![p] = Begun(p)]
            /\ UNCHANGED <<resp, conns>>
    /\ UNCHANGED <<served, users, api_tokens, incidents, uploads, clock, nextId, req, token, hist, everIds, budget>>

\* SELECT user_id, password_hash FROM users WHERE username = %s; one 401 for an
\* unknown username and for a wrong password
LoginSelect(p) ==
    /\ pc[p] = "login_select"
    /\ LET user_data == {r \in users : r.username = req[p].username} IN
       IF user_data = {} \/ \A r \in user_data : ~ check_password_hash(r.password_hash, req[p].password)
       THEN /\ Return(p, 401)
            /\ loc' = [loc EXCEPT ![p].message = InvalidLogin]
       ELSE /\ \E r \in user_data : loc' = [loc EXCEPT ![p].user_id = r.user_id]
            /\ pc' = [pc EXCEPT ![p] = "login_delete"]
            /\ tx' = [tx EXCEPT ![p] = Begun(p)]
            /\ UNCHANGED <<resp, conns>>
    /\ UNCHANGED <<served, users, api_tokens, incidents, uploads, clock, nextId, req, token, hist, everIds, budget>>

\* DELETE FROM api_tokens WHERE user_id = %s: the statement sees the rows
\* committed when it starts; when another transaction holds one of them it
\* waits for that transaction to end
LoginDelete(p) ==
    /\ pc[p] = "login_delete"
    /\ LET old == {r \in api_tokens : r.user_id = loc[p].user_id} IN
       IF \E r \in old : TokenLocked(p, r)
       THEN /\ tx' = [tx EXCEPT ![p].tokWait = old]
            /\ pc' = [pc EXCEPT ![p] = "login_delete_wait"]
       ELSE /\ tx' = [tx EXCEPT ![p].tokDel = @ \cup old]
            /\ pc' = [pc EXCEPT ![p] = "login_insert"]
    /\ UNCHANGED <<served, users, api_tokens, incidents, uploads, clock, nextId, req, token, loc,
                   conns, resp, hist, everIds, budget>>

\* the DELETE goes on when the rows it waited for are free: it deletes those
\* that still exist and does not see rows committed since it started
LoginDeleteResume(p) ==
    /\ pc[p] = "login_delete_wait"
    /\ \A r \in tx[p].tokWait : ~ TokenLocked(p, r)
    /\ tx' = [tx EXCEPT ![p].tokDel = @ \cup (tx[p].tokWait \cap api_tokens),
                        ![p].tokWait = {}]
    /\ pc' = [pc EXCEPT ![p] = "login_insert"]
    /\ UNCHANGED <<served, users, api_tokens, incidents, uploads, clock, nextId, req, token, loc,
                   conns, resp, hist, everIds, budget>>

\* mutant: api_tokens.user_id is not UNIQUE
TokenClash_NotUnique(p, user_id) == {}

\* the rows of api_tokens that an insert by p collides with on the UNIQUE user_id
TokenClash(p, user_id) == {r \in api_tokens \ tx[p].tokDel : r.user_id = user_id}

\* INSERT INTO api_tokens (token, user_id): created_at defaults to
\* CURRENT_TIMESTAMP; a unique violation ends the request with 500
LoginInsert(p) ==
    /\ pc[p] = "login_insert"
    /\ ~ \E q \in Others(p) : \E r \in tx[q].tokIns : r.user_id = loc[p].user_id
    /\ \A r \in TokenClash(p, loc[p].user_id) : ~ TokenLocked(p, r)
    /\ nextId' = nextId + 1
    /\ IF TokenClash(p, loc[p].user_id) # {}
       THEN /\ Return(p, 500)
       ELSE /\ tx' = [tx EXCEPT ![p].tokIns = @ \cup
                        {[token |-> Str(Uuid(nextId + 1)),
                          user_id |-> loc[p].user_id,
                          created_at |-> tx[p].start]}]
            /\ pc' = [pc EXCEPT ![p] = "login_commit"]
            /\ UNCHANGED <<resp, conns>>
    /\ UNCHANGED <<served, users, api_tokens, incidents, uploads, clock, req, token, loc, hist, everIds, budget>>

\* mutant: the login only adds its token, the user's old token stays
LoginCommit_Additive(p) ==
    /\ pc[p] = "login_commit"
    /\ api_tokens' = api_tokens \cup tx[p].tokIns
    /\ hist' = hist \o [i \in 1..Cardinality(tx[p].tokIns) |->
                          CHOOSE r \in tx[p].tokIns : TRUE]
    /\ Return(p, 200)
    /\ UNCHANGED <<served, users, incidents, uploads, clock, nextId, req, token, loc, everIds, budget>>

\* conn.commit(); return 200 with the token
LoginCommit(p) ==
    /\ pc[p] = "login_commit"
    /\ api_tokens' = (api_tokens \ tx[p].tokDel) \cup tx[p].tokIns
    /\ hist' = hist \o [i \in 1..Cardinality(tx[p].tokIns) |->
                          CHOOSE r \in tx[p].tokIns : TRUE]
    /\ Return(p, 200)
    /\ UNCHANGED <<served, users, incidents, uploads, clock, nextId, req, token, loc, everIds, budget>>

-----------------------------------------------------------------------------
(* token_required *)

NoAuth == [has |-> FALSE, val |-> <<>>]
Auth(h) == [has |-> TRUE, val |-> h]

\* a token value no login ever returned
BOGUS == "bogus"

\* the Authorization headers that carry no usable credential
BadHeaders ==
    {NoAuth, Auth(<<>>), Auth(<<BEARER>>), Auth(<<BEARER, SP>>), Auth(<<BEARER, SP, SP>>)}

\* "Bearer <token>" for every token a login has returned so far (live, replaced
\* or revoked)
BearerHeaders == {Auth(<<BEARER, SP>> \o hist[i].token) : i \in 1..Len(hist)}

\* the same with a made-up token
BogusHeader == Auth(<<BEARER, SP, BOGUS>>)

Headers == BadHeaders \cup BearerHeaders \cup {BogusHeader}

HeadersOf(p) == IF p = HeaderClient THEN Headers ELSE BearerHeaders

\* request.headers['Authorization'].split(" ")
Words(auth) == Split(auth.val)

\* lines 61-75: take the token from the header, answer 401 when there is none,
\* otherwise open the guard's connection.  split(" ")[1] on a header of one
\* word raises IndexError outside the try block, which Flask answers with 500
GuardEnter(p, r) ==
    /\ Receive(p)
    /\ req' = [req EXCEPT ![p] = r]
    /\ IF ~ r.auth.has
       THEN Return(p, 401) /\ UNCHANGED token
       ELSE IF Len(Words(r.auth)) < 2
       THEN Return(p, 500) /\ UNCHANGED token
       ELSE IF Words(r.auth)[2] = <<>>
       THEN Return(p, 401) /\ UNCHANGED token
       ELSE /\ token' = [token EXCEPT ![p] = Words(r.auth)[2]]
            /\ pc' = [pc EXCEPT ![p] = "guard_select"]
            /\ conns' = [conns EXCEPT ![p] = {"guard"}]
            /\ UNCHANGED <<resp, tx>>
    /\ UNCHANGED <<users, api_tokens, incidents, uploads, clock, nextId, loc, hist, everIds, budget>>

\* lines 77-86: look the token up; no row, 401
GuardSelect(p) ==
    /\ pc[p] = "guard_select"
    /\ LET result == {r \in api_tokens : r.token = token[p]} IN
       IF result = {}
       THEN Return(p, 401) /\ UNCHANGED loc
       ELSE \E r \in result :
            /\ loc' = [loc EXCEPT ![p].result = <<r.user_id, r.created_at>>]
            /\ pc' = [pc EXCEPT ![p] = "guard_check"]
            /\ UNCHANGED <<resp, conns, tx>>
    /\ UNCHANGED <<served, users, api_tokens, incidents, uploads, clock, nextId, req, token, hist, everIds, budget>>

\* mutant: a token found expired is deleted on the spot
GuardCheck_Purging(p) ==
    /\ pc[p] = "guard_check"
    /\ LET created_at == loc[p].result[2] IN
       /\ loc' = [loc EXCEPT ![p].now = clock]
       /\ IF Expired(clock, created_at)
          THEN /\ Return(p, 401)
               /\ api_tokens' = {r \in api_tokens : r.token # token[p]}
          ELSE /\ pc' = [pc EXCEPT ![p] = "guard_call"]
               /\ UNCHANGED <<resp, conns, tx, api_tokens>>
    /\ UNCHANGED <<served, users, incidents, uploads, clock, nextId, req, token, hist, everIds, budget>>

\* lines 88-95: read the clock and compare the age of the token found with the
\* window, both times cut to whole seconds; older, 401
GuardCheck(p) ==
    /\ pc[p] = "guard_check"
    /\ LET created_at == loc[p].result[2] IN
       /\ loc' = [loc EXCEPT ![p].now = clock]
       /\ IF Expired(clock, created_at)
          THEN Return(p, 401)
          ELSE /\ pc' = [pc EXCEPT ![p] = "guard_call"]
               /\ UNCHANGED <<resp, conns, tx>>
    /\ UNCHANGED <<served, users, api_tokens, incidents, uploads, clock, nextId, req, token, hist, everIds, budget>>

\* line 99 and the first lines of every handler: f(user_id, ...) is called
\* with the user of the token found, and the handler opens its own connection
GuardCall(p) ==
    /\ pc[p] = "guard_call"
    /\ LET user_id == loc[p].result[1] IN
       loc' = [loc EXCEPT ![p].user_id = user_id]
    /\ pc' = [pc EXCEPT ![p] = "handler"]
    /\ conns' = [conns EXCEPT ![p] = {"guard", "handler"}]
    /\ UNCHANGED <<served, users, api_tokens, incidents, uploads, clock, nextId, req, token,
                   resp, tx, hist, everIds, budget>>

InHandler(p, op) == pc[p] = "handler" /\ req[p].op = op

-----------------------------------------------------------------------------
(* POST /logout *)

LogoutStart(p) == Free(p) /\ \E h \in HeadersOf(p) : GuardEnter(p, [op |-> "logout", auth |-> h])

\* mutant: DELETE FROM api_tokens WHERE user_id = %s, as login does
LogoutDelete_ByUser(p) ==
    /\ InHandler(p, "logout")
    /\ LET old == {r \in api_tokens : r.user_id = loc[p].user_id} IN
        /\ \A r \in old : ~ TokenLocked(p, r)
        /\ tx' = [tx EXCEPT ![p] = [Begun(p) EXCEPT !.tokDel = @ \cup old]]
    /\ pc' = [pc EXCEPT ![p] = "logout_commit"]
    /\ UNCHANGED <<served, users, api_tokens, incidents, uploads, clock, nextId, req, token, loc,
                   conns, resp, hist, everIds, budget>>

\* DELETE FROM api_tokens WHERE user_id = %s AND token = %s
LogoutDelete(p) ==
    /\ InHandler(p, "logout")
    /\ LET old == {r \in api_tokens : r.user_id = loc[p].user_id /\ r.token = token[p]} IN
        /\ \A r \in old : ~ TokenLocked(p, r)
        /\ tx' = [tx EXCEPT ![p] = [Begun(p) EXCEPT !.tokDel = @ \cup old]]
    /\ pc' = [pc EXCEPT ![p] = "logout_commit"]
    /\ UNCHANGED <<served, users, api_tokens, incidents, uploads, clock, nextId, req, token, loc,
                   conns, resp, hist, everIds, budget>>

\* conn.commit(); return 200
LogoutCommit(p) ==
    /\ pc[p] = "logout_commit"
    /\ api_tokens' = api_tokens \ tx[p].tokDel
    /\ Return(p, 200)
    /\ UNCHANGED <<served, users, incidents, uploads, clock, nextId, req, token, loc, hist, everIds, budget>>

-----------------------------------------------------------------------------
(* Uploads *)

\* a file name is the sequence of its characters
DOT == "."
ALLOWED_EXTENSIONS ==
    {<<"p", "n", "g">>, <<"j", "p", "g">>, <<"j", "p", "e", "g">>, <<"g", "i", "f">>}

\* the characters a string of the model can hold are those of Latin-1; these
\* are the ones among them that str.lower() changes: A-Z, and the accented
\* capitals U+00C0-U+00DE without the multiplication sign U+00D7
UpperCase == <<"A", "B", "C", "D", "E", "F", "G", "H", "I", "J", "K", "L", "M",
               "N", "O", "P", "Q", "R", "S", "T", "U", "V", "W", "X", "Y", "Z",
               "À", "Á", "Â", "Ã", "Ä", "Å", "Æ", "Ç", "È", "É", "Ê", "Ë", "Ì",
               "Í", "Î", "Ï", "Ð", "Ñ", "Ò", "Ó", "Ô", "Õ", "Ö", "Ø", "Ù", "Ú",
               "Û", "Ü", "Ý", "Þ">>
\* their lower-case forms, position by position
LowerCase == <<"a", "b", "c", "d", "e", "f", "g", "h", "i", "j", "k", "l", "m",
               "n", "o", "p", "q", "r", "s", "t", "u", "v", "w", "x", "y", "z",
               "à", "á", "â", "ã", "ä", "å", "æ", "ç", "è", "é", "ê", "ë", "ì",
               "í", "î", "ï", "ð", "ñ", "ò", "ó", "ô", "õ", "ö", "ø", "ù", "ú",
               "û", "ü", "ý", "þ">>

\* the lower-case form of one character; every other Latin-1 character, the
\* sharp s, the micro sign and y with diaeresis included, is its own lower case
LowerChar(c) ==
    IF \E i \in 1..Len(UpperCase) : UpperCase[i] = c
    THEN LowerCase[CHOOSE i \in 1..Len(UpperCase) : UpperCase[i] = c]
    ELSE c

\* str.lower()
Lower(str) == [i \in 1..Len(str) |-> LowerChar(str[i])]

\* filename.rsplit('.', 1)[1]: what follows the last dot
AfterLastDot(name) ==
    LET last == CHOOSE i \in 1..Len(name) :
                    name[i] = DOT /\ \A j \in (i + 1)..Len(name) : name[j] # DOT
    IN SubSeq(name, last + 1, Len(name))

HasDot(name) == \E i \in 1..Len(name) : name[i] = DOT

\* mutant: any name with a dot is accepted
allowed_file_AnyExtension(filename) == HasDot(filename)

\* '.' in filename and filename.rsplit('.', 1)[1].lower() in ALLOWED_EXTENSIONS
allowed_file(filename) ==
    /\ HasDot(filename)
    /\ Lower(AfterLastDot(filename)) \in ALLOWED_EXTENSIONS

\* werkzeug's secure_filename: path separators do not survive
secure_filename(filename) == SelectSeq(filename, LAMBDA a : a # "/")

NoImage == [has |-> FALSE, filename |-> <<>>]
Image(name) == [has |-> TRUE, filename |-> name]

\* str(uuid.uuid4()) + "_" + filename
UniqueFilename(u, filename) == <<u, "_">> \o secure_filename(filename)
ImageUrl(unique_filename) == <<"/uploads/">> \o unique_filename

-----------------------------------------------------------------------------
(* Request inputs of the incident routes *)

RequiredFields == {"title", "description", "lat", "long"}

FullForm == [title |-> "a", description |-> "a", lat |-> "a", long |-> "a"]
NoFields == [title |-> None, description |-> None, lat |-> None, long |-> None]

\* forms with one required field omitted or empty, and the form with none
BadForms ==
    {[FullForm EXCEPT ![f] = v] : f \in RequiredFields, v \in {None, Empty}} \cup {NoFields}

NoCreated == [kind |-> "none", t |-> 0]
BadCreated == [kind |-> "bad", t |-> 0]
IsoCreated(t) == [kind |-> "iso", t |-> t]

\* the file names p.png, p.JpEg, p.exe and png
P_PNG == <<"p", DOT, "p", "n", "g">>
P_JPEG_MIXED == <<"p", DOT, "J", "p", "E", "g">>
P_EXE == <<"p", DOT, "e", "x", "e">>
PNG_NO_DOT == <<"p", "n", "g">>

GoodImages == {Image(P_PNG), Image(P_JPEG_MIXED)}
BadImages == {Image(P_EXE), Image(PNG_NO_DOT), Image(<<>>)}

CreateInputs ==
    {[form |-> FullForm, image |-> i, created |-> NoCreated] :
        i \in {NoImage} \cup GoodImages \cup BadImages}
    \cup {[form |-> FullForm, image |-> NoImage, created |-> c] :
        c \in {BadCreated, IsoCreated(1)}}
    \cup {[form |-> f, image |-> NoImage, created |-> NoCreated] : f \in BadForms}
    \cup {[form |-> NoFields, image |-> Image(P_PNG), created |-> NoCreated]}

UpdateInputs ==
    {[form |-> NoFields, image |-> i] :
        i \in {NoImage, Image(P_PNG), Image(P_EXE)}}
    \cup {[form |-> [NoFields EXCEPT ![f] = "b"], image |-> NoImage] : f \in RequiredFields}
    \cup {[form |-> [NoFields EXCEPT !.title = Empty], image |-> NoImage],
          [form |-> [NoFields EXCEPT !.title = "b"], image |-> Image(P_PNG)],
          [form |-> [NoFields EXCEPT !.title = "b"], image |-> Image(P_EXE)],
          [form |-> [f \in RequiredFields |-> "b"], image |-> NoImage]}

\* incident ids a client asks for: one that was created, or a made-up one
PathIds == everIds \cup {BOGUS}

\* only the body client departs from the plainest request
Guarded(p, r, default) == p = BodyClient \/ r = default

DefaultCreate == [form |-> FullForm, image |-> NoImage, created |-> NoCreated]
DefaultUpdate == [form |-> [NoFields EXCEPT !.title = "b"], image |-> NoImage]
DefaultId == IF everIds = {} THEN BOGUS ELSE CHOOSE id \in everIds : TRUE

-----------------------------------------------------------------------------
(* POST /incidents *)

CreateStart(p) ==
    /\ Free(p)
    /\ \E h \in HeadersOf(p), i \in CreateInputs :
        /\ Guarded(p, i, DefaultCreate)
        /\ GuardEnter(p, [op |-> "create", auth |-> h, form |-> i.form,
                          image |-> i.image, created |-> i.created])

\* mutant: only an absent field counts, an empty one passes
MissingRequired_NoneOnly(form) == \E f \in RequiredFields : form[f] = None

\* not all([title, description, lat, long])
MissingRequired(form) == \E f \in RequiredFields : form[f] \in {None, Empty}

\* lines 302-328: check the form, store the image, draw the incident id
CreateValidate(p) ==
    /\ InHandler(p, "create")
    /\ IF MissingRequired(req[p].form)
       THEN Return(p, 400) /\ UNCHANGED <<uploads, nextId, loc>>
       ELSE IF ~ req[p].image.has
       THEN /\ loc' = [loc EXCEPT ![p].incident_id = Uuid(nextId + 1)]
            /\ nextId' = nextId + 1
            /\ pc' = [pc EXCEPT ![p] = "create_insert"]
            /\ UNCHANGED <<uploads, resp, conns, tx>>
       ELSE IF req[p].image.filename # <<>> /\ allowed_file(req[p].image.filename)
       THEN LET unique_filename == UniqueFilename(Uuid(nextId + 1), req[p].image.filename) IN
            /\ uploads' = uploads \cup {unique_filename}
            /\ loc' = [loc EXCEPT ![p].image_url = ImageUrl(unique_filename),
                                  ![p].incident_id = Uuid(nextId + 2)]
            /\ nextId' = nextId + 2
            /\ pc' = [pc EXCEPT ![p] = "create_insert"]
            /\ UNCHANGED <<resp, conns, tx>>
       ELSE Return(p, 400) /\ UNCHANGED <<uploads, nextId, loc>>
    /\ UNCHANGED <<served, users, api_tokens, incidents, clock, req, token, hist, everIds, budget>>

\* datetime.fromisoformat(created_at_str), None when absent or unparsable
ParseCreated(c) == IF c.kind = "iso" THEN c.t ELSE -1

\* INSERT INTO incidents ...: created_at is the parsed value or CURRENT_TIMESTAMP
CreateInsert(p) ==
    /\ pc[p] = "create_insert"
    /\ LET t == Begun(p)
           created_at_dt == ParseCreated(req[p].created) IN
       tx' = [tx EXCEPT ![p] = [t EXCEPT !.incIns = @ \cup
                {[incident_id |-> loc[p].incident_id,
                  user_id |-> loc[p].user_id,
                  title |-> req[p].form.title,
                  description |-> req[p].form.description,
                  lat |-> req[p].form.lat,
                  long |-> req[p].form.long,
                  image_url |-> loc[p].image_url,
                  created_at |-> IF created_at_dt # -1 THEN created_at_dt ELSE t.start]}]]
    /\ pc' = [pc EXCEPT ![p] = "create_commit"]
    /\ UNCHANGED <<served, users, api_tokens, incidents, uploads, clock, nextId, req, token,
                   loc, conns, resp, hist, everIds, budget>>

\* the token of request p is not stored (any more)
Stale(p) == \A r \in api_tokens : r.token # token[p]

\* mutant: the commit is given up when the token is no longer stored
CreateCommit_LiveOnly(p) ==
    /\ pc[p] = "create_commit"
    /\ incidents' = IF Stale(p) THEN incidents ELSE incidents \cup tx[p].incIns
    /\ everIds' = everIds \cup {r.incident_id : r \in tx[p].incIns}
    /\ loc' = [loc EXCEPT ![p].stale = Stale(p)]
    /\ tx' = [tx EXCEPT ![p] = NoTx]
    /\ pc' = [pc EXCEPT ![p] = "create_fetch"]
    /\ UNCHANGED <<served, users, api_tokens, uploads, clock, nextId, req, token,
                   conns, resp, hist, budget>>

\* conn.commit()
CreateCommit(p) ==
    /\ pc[p] = "create_commit"
    /\ incidents' = incidents \cup tx[p].incIns
    /\ everIds' = everIds \cup {r.incident_id : r \in tx[p].incIns}
    /\ loc' = [loc EXCEPT ![p].stale = Stale(p)]
    /\ tx' = [tx EXCEPT ![p] = NoTx]
    /\ pc' = [pc EXCEPT ![p] = "create_fetch"]
    /\ UNCHANGED <<served, users, api_tokens, uploads, clock, nextId, req, token,
                   conns, resp, hist, budget>>

\* SELECT * FROM incidents WHERE incident_id = %s; dict(cur.fetchone()) raises
\* when the row is gone again
CreateFetch(p) ==
    /\ pc[p] = "create_fetch"
    /\ IF \E r \in incidents : r.incident_id = loc[p].incident_id
       THEN Return(p, 201)
       ELSE Return(p, 500)
    /\ UNCHANGED <<served, users, api_tokens, incidents, uploads, clock, nextId, req, token,
                   loc, hist, everIds, budget>>

-----------------------------------------------------------------------------
(* GET /incidents and GET /incidents/<incident_id> *)

ListStart(p) == Free(p) /\ \E h \in HeadersOf(p) : GuardEnter(p, [op |-> "list", auth |-> h])

\* SELECT * FROM incidents ORDER BY created_at DESC
ListSelect(p) ==
    /\ InHandler(p, "list")
    /\ Return(p, 200)
    /\ UNCHANGED <<served, users, api_tokens, incidents, uploads, clock, nextId, req, token,
                   loc, hist, everIds, budget>>

GetStart(p) ==
    /\ Free(p)
    /\ \E h \in HeadersOf(p), id \in PathIds :
        /\ Guarded(p, id, DefaultId)
        /\ GuardEnter(p, [op |-> "get", auth |-> h, id |-> id])

\* SELECT * FROM incidents WHERE incident_id = %s
GetSelect(p) ==
    /\ InHandler(p, "get")
    /\ IF \E r \in incidents : r.incident_id = req[p].id
       THEN Return(p, 200)
       ELSE Return(p, 404)
    /\ UNCHANGED <<served, users, api_tokens, incidents, uploads, clock, nextId, req, token,
                   loc, hist, everIds, budget>>

-----------------------------------------------------------------------------
(* PUT /incidents/<incident_id> *)

UpdateStart(p) ==
    /\ Free(p)
    /\ \E h \in HeadersOf(p), id \in PathIds, i \in UpdateInputs :
        /\ Guarded(p, <<id, i>>, <<DefaultId, DefaultUpdate>>)
        /\ GuardEnter(p, [op |-> "update", auth |-> h, id |-> id,
                          form |-> i.form, image |-> i.image])

\* the SET list built at lines 489-506: the fields that are not None
UpdateFields(form, image_url) ==
    {f \in RequiredFields : form[f] # None} \cup (IF image_url # NoUrl THEN {"image_url"} ELSE {})

\* the row after UPDATE incidents SET ...
Updated(row, form, image_url) ==
    [f \in DOMAIN row |->
        IF f \in UpdateFields(form, image_url)
        THEN (IF f = "image_url" THEN image_url ELSE form[f])
        ELSE row[f]]

\* mutant: the ownership check is gone, as it is in delete_incident
NotOwner_Unchecked(incident, user_id) == FALSE

\* incident['user_id'] != user_id
NotOwner(incident, user_id) == \E r \in incident : r.user_id # user_id

\* lines 456-468: read the owner of the incident; none, 404; a stranger, 403
UpdateSelect(p) ==
    /\ InHandler(p, "update")
    /\ LET incident == {r \in incidents : r.incident_id = req[p].id} IN
       IF incident = {}
       THEN Return(p, 404)
       ELSE IF NotOwner(incident, loc[p].user_id)
       THEN Return(p, 403)
       ELSE /\ pc' = [pc EXCEPT ![p] = "update_save"]
            /\ tx' = [tx EXCEPT ![p] = Begun(p)]
            /\ UNCHANGED <<resp, conns>>
    /\ UNCHANGED <<served, users, api_tokens, incidents, uploads, clock, nextId, req, token,
                   loc, hist, everIds, budget>>

\* lines 470-509: store the image when it has an allowed name, build the SET
\* list; nothing to set, 400
UpdateSave(p) ==
    /\ pc[p] = "update_save"
    /\ LET saves == req[p].image.has /\ req[p].image.filename # <<>>
                    /\ allowed_file(req[p].image.filename)
           unique_filename == UniqueFilename(Uuid(nextId + 1), req[p].image.filename)
           image_url == IF saves THEN ImageUrl(unique_filename) ELSE NoUrl IN
       /\ uploads' = IF saves THEN uploads \cup {unique_filename} ELSE uploads
       /\ nextId' = IF saves THEN nextId + 1 ELSE nextId
       /\ IF UpdateFields(req[p].form, image_url) = {}
          THEN Return(p, 400) /\ UNCHANGED loc
          ELSE /\ loc' = [loc EXCEPT ![p].image_url = image_url]
               /\ pc' = [pc EXCEPT ![p] = "update_exec"]
               /\ UNCHANGED <<resp, conns, tx>>
    /\ UNCHANGED <<served, users, api_tokens, incidents, clock, req, token, hist, everIds, budget>>

\* UPDATE incidents SET ... WHERE incident_id=%s: waits while another
\* transaction holds the row
UpdateExec(p) ==
    /\ pc[p] = "update_exec"
    /\ LET old == {r \in incidents : r.incident_id = req[p].id} IN
        /\ \A r \in old : ~ IncidentLocked(p, r)
        /\ tx' = [tx EXCEPT ![p].incUpd =
                    @ \cup {<<r, Updated(r, req[p].form, loc[p].image_url)>> : r \in old}]
    /\ pc' = [pc EXCEPT ![p] = "update_commit"]
    /\ UNCHANGED <<served, users, api_tokens, incidents, uploads, clock, nextId, req, token,
                   loc, conns, resp, hist, everIds, budget>>

\* conn.commit()
UpdateCommit(p) ==
    /\ pc[p] = "update_commit"
    /\ incidents' = (incidents \ {u[1] : u \in tx[p].incUpd}) \cup {u[2] : u \in tx[p].incUpd}
    /\ loc' = [loc EXCEPT ![p].stale = Stale(p)]
    /\ tx' = [tx EXCEPT ![p] = NoTx]
    /\ pc' = [pc EXCEPT ![p] = "update_fetch"]
    /\ UNCHANGED <<served, users, api_tokens, uploads, clock, nextId, req, token,
                   conns, resp, hist, everIds, budget>>

\* SELECT * FROM incidents WHERE incident_id = %s; 'created_at' in None raises
\* when the row is gone
UpdateFetch(p) ==
    /\ pc[p] = "update_fetch"
    /\ IF \E r \in incidents : r.incident_id = req[p].id
       THEN Return(p, 200)
       ELSE Return(p, 500)
    /\ UNCHANGED <<served, users, api_tokens, incidents, uploads, clock, nextId, req, token,
                   loc, hist, everIds, budget>>

-----------------------------------------------------------------------------
(* DELETE /incidents/<incident_id> *)

DeleteStart(p) ==
    /\ Free(p)
    /\ \E h \in HeadersOf(p), id \in PathIds :
        /\ Guarded(p, id, DefaultId)
        /\ GuardEnter(p, [op |-> "delete", auth |-> h, id |-> id])

\* SELECT incident_id FROM incidents WHERE incident_id = %s
DeleteSelect(p) ==
    /\ InHandler(p, "delete")
    /\ IF \E r \in incidents : r.incident_id = req[p].id
       THEN /\ pc' = [pc EXCEPT ![p] = "delete_exec"]
            /\ tx' = [tx EXCEPT ![p] = Begun(p)]
            /\ UNCHANGED <<resp, conns>>
       ELSE Return(p, 404)
    /\ UNCHANGED <<served, users, api_tokens, incidents, uploads, clock, nextId, req, token,
                   loc, hist, everIds, budget>>

\* DELETE FROM incidents WHERE incident_id = %s: waits while another
\* transaction holds the row
DeleteExec(p) ==
    /\ pc[p] = "delete_exec"
    /\ LET old == {r \in incidents : r.incident_id = req[p].id} IN
        /\ \A r \in old : ~ IncidentLocked(p, r)
        /\ tx' = [tx EXCEPT ![p].incDel = @ \cup old]
    /\ pc' = [pc EXCEPT ![p] = "delete_commit"]
    /\ UNCHANGED <<served, users, api_tokens, incidents, uploads, clock, nextId, req, token,
                   loc, conns, resp, hist, everIds, budget>>

\* mutant: the commit removes only incidents of the caller
DeleteCommit_OwnRowsOnly(p) ==
    /\ pc[p] = "delete_commit"
    /\ incidents' = incidents \ {r \in tx[p].incDel : r.user_id = loc[p].user_id}
    /\ loc' = [loc EXCEPT ![p].stale = Stale(p)]
    /\ Return(p, 200)
    /\ UNCHANGED <<served, users, api_tokens, uploads, clock, nextId, req, token,
                   hist, everIds, budget>>

\* conn.commit(); return 200
DeleteCommit(p) ==
    /\ pc[p] = "delete_commit"
    /\ incidents' = incidents \ tx[p].incDel
    /\ loc' = [loc EXCEPT ![p].stale = Stale(p)]
    /\ Return(p, 200)
    /\ UNCHANGED <<served, users, api_tokens, uploads, clock, nextId, req, token,
                   hist, everIds, budget>>

-----------------------------------------------------------------------------
(* The clock *)

\* time passes: a tick, or a whole validity window; the clock stays within
\* Slack ticks of the origin or of one window after it
Tick ==
    /\ \E d \in {1, WindowTicks} :
        /\ clock + d <= MaxClock
        /\ d = 1 => (clock % WindowTicks) < Slack
        /\ clock' = clock + d
    /\ UNCHANGED <<served, users, api_tokens, incidents, uploads, nextId,
                   pc, req, token, loc, tx, conns, resp, hist, everIds, budget>>

-----------------------------------------------------------------------------

Init ==
    /\ users = {}
    /\ api_tokens = {}
    /\ incidents = {}
    /\ uploads = {}
    /\ clock = 0
    /\ nextId = 0
    /\ pc = [p \in Procs |-> "idle"]
    /\ req = [p \in Procs |-> NoReq]
    /\ token = [p \in Procs |-> <<>>]
    /\ loc = [p \in Procs |-> NoLoc]
    /\ tx = [p \in Procs |-> NoTx]
    /\ conns = [p \in Procs |-> {}]
    /\ resp = [p \in Procs |-> 0]
    /\ served = 0
    /\ hist = <<>>
    /\ everIds = {}
    /\ budget = MaxRequests

\* register, login and logout requests, from the empty database
Next ==
    \E p \in Procs :
        \/ RegisterStart(p)
        \/ RegisterValidate(p)
        \/ RegisterSelect(p)
        \/ RegisterInsert(p)
        \/ RegisterCommit(p)
        \/ LoginStart(p)
        \/ LoginValidate(p)
        \/ LoginSelect(p)
        \/ LoginDelete(p)
        \/ LoginDeleteResume(p)
        \/ LoginInsert(p)
        \/ LoginCommit(p)
        \/ LogoutStart(p)
        \/ GuardSelect(p)
        \/ GuardCheck(p)
        \/ GuardCall(p)
        \/ LogoutDelete(p)
        \/ LogoutCommit(p)
        \/ Finish(p)

Spec == Init /\ [][Next]_vars

-----------------------------------------------------------------------------
(* The service after register(alice), register(bob), login(alice), login(bob)  *)
(* and one create by alice, bob having logged in up to Slack ticks after      *)
(* alice                                                                      *)

AliceRow == [user_id |-> Uuid(1), username |-> "alice",
             password_hash |-> generate_password_hash("pw1")]
BobRow == [user_id |-> Uuid(2), username |-> "bob",
           password_hash |-> generate_password_hash("pw1")]
AliceToken == [token |-> Str(Uuid(3)), user_id |-> Uuid(1), created_at |-> 0]
BobToken(t) == [token |-> Str(Uuid(4)), user_id |-> Uuid(2), created_at |-> t]
AliceIncident(t) ==
    [incident_id |-> Uuid(5), user_id |-> Uuid(1), title |-> "a", description |-> "a",
     lat |-> "a", long |-> "a", image_url |-> NoUrl, created_at |-> t]

Seeded ==
    /\ users = {AliceRow, BobRow}
    /\ \E t \in 0..Slack :
        /\ api_tokens = {AliceToken, BobToken(t)}
        /\ hist = <<AliceToken, BobToken(t)>>
        /\ incidents = {AliceIncident(t)}
        /\ clock = t
    /\ uploads = {}
    /\ nextId = 5
    /\ pc = [p \in Procs |-> "idle"]
    /\ req = [p \in Procs |-> NoReq]
    /\ token = [p \in Procs |-> <<>>]
    /\ loc = [p \in Procs |-> NoLoc]
    /\ tx = [p \in Procs |-> NoTx]
    /\ conns = [p \in Procs |-> {}]
    /\ resp = [p \in Procs |-> 0]
    /\ served = 0
    /\ everIds = {Uuid(5)}

InitLoggedIn == Seeded /\ budget = MaxGuarded

\* the protected routes
NextIncidents ==
    \E p \in Procs :
        \/ LogoutStart(p)
        \/ CreateStart(p)
        \/ ListStart(p)
        \/ GetStart(p)
        \/ UpdateStart(p)
        \/ DeleteStart(p)
        \/ GuardSelect(p)
        \/ GuardCheck(p)
        \/ GuardCall(p)
        \/ LogoutDelete(p)
        \/ LogoutCommit(p)
        \/ CreateValidate(p)
        \/ CreateInsert(p)
        \/ CreateCommit(p)
        \/ CreateFetch(p)
        \/ ListSelect(p)
        \/ GetSelect(p)
        \/ UpdateSelect(p)
        \/ UpdateSave(p)
        \/ UpdateExec(p)
        \/ UpdateCommit(p)
        \/ UpdateFetch(p)
        \/ DeleteSelect(p)
        \/ DeleteExec(p)
        \/ DeleteCommit(p)
        \/ Finish(p)

InitIncidents == InitLoggedIn /\ clock = 0

SpecIncidents == InitIncidents /\ [][NextIncidents]_vars

\* the protected routes while time passes, one request at a time
NextGuard ==
    \/ Tick
    \/ \E p \in {HeaderClient} :
           \/ LogoutStart(p)
           \/ CreateStart(p)
           \/ ListStart(p)
           \/ GetStart(p)
           \/ UpdateStart(p)
           \/ DeleteStart(p)
           \/ GuardSelect(p)
           \/ GuardCheck(p)
           \/ GuardCall(p)
           \/ LogoutDelete(p)
           \/ LogoutCommit(p)
           \/ CreateValidate(p)
           \/ CreateInsert(p)
           \/ CreateCommit(p)
           \/ CreateFetch(p)
           \/ ListSelect(p)
           \/ GetSelect(p)
           \/ UpdateSelect(p)
           \/ UpdateSave(p)
           \/ UpdateExec(p)
           \/ UpdateCommit(p)
           \/ UpdateFetch(p)
           \/ DeleteSelect(p)
           \/ DeleteExec(p)
           \/ DeleteCommit(p)
           \/ Finish(p)


SpecGuard == InitLoggedIn /\ [][NextGuard]_vars

\* one client logs in again and again and lists the incidents while time
\* passes: no token is revoked by a logout
NextRelogin ==
    \/ Tick
    \/ \E p \in {HeaderClient} :
           \/ LoginStart(p)
           \/ LoginValidate(p)
           \/ LoginSelect(p)
           \/ LoginDelete(p)
           \/ LoginInsert(p)
           \/ LoginCommit(p)
           \/ ListStart(p)
           \/ GuardSelect(p)
           \/ GuardCheck(p)
           \/ GuardCall(p)
           \/ ListSelect(p)
           \/ Finish(p)

InitRelogin == Seeded /\ budget = MaxRelogin

SpecRelogin == InitRelogin /\ [][NextRelogin]_vars

\* logins, logouts and writes to the incidents at the same time
NextSessions ==
    \E p \in Procs :
        \/ LoginStart(p)
        \/ LoginValidate(p)
        \/ LoginSelect(p)
        \/ LoginDelete(p)
        \/ LoginDeleteResume(p)
        \/ LoginInsert(p)
        \/ LoginCommit(p)
        \/ LogoutStart(p)
        \/ CreateStart(p)
        \/ UpdateStart(p)
        \/ DeleteStart(p)
        \/ GuardSelect(p)
        \/ GuardCheck(p)
        \/ GuardCall(p)
        \/ LogoutDelete(p)
        \/ LogoutCommit(p)
        \/ CreateValidate(p)
        \/ CreateInsert(p)
        \/ CreateCommit(p)
        \/ CreateFetch(p)
        \/ UpdateSelect(p)
        \/ UpdateSave(p)
        \/ UpdateExec(p)
        \/ UpdateCommit(p)
        \/ UpdateFetch(p)
        \/ DeleteSelect(p)
        \/ DeleteExec(p)
        \/ DeleteCommit(p)
        \/ Finish(p)

SpecSessions == InitIncidents /\ [][NextSessions]_vars

-----------------------------------------------------------------------------
(* Storage failures *)

\* get_db_connection() returns None, or the statement or commit the request is
\* about to run raises: every handler and the guard answer 500 from their
\* "conn is None" test or their except branch (rollback where there is one) and
\* close their connections; what was committed before stays committed
StorageFails(p) ==
    /\ pc[p] \notin {"idle", "done"}
    /\ Return(p, 500)
    /\ UNCHANGED <<served, users, api_tokens, incidents, uploads, clock, nextId, req,
                   token, loc, hist, everIds, budget>>

\* every route, one request at a time, over a storage that may fail; a single
\* client never waits for a row lock, and both user names are taken in the
\* seeded store, so a register ends at its SELECT at the latest
NextFaults ==
    \E p \in {BodyClient} :
        \/ RegisterStart(p)
        \/ RegisterValidate(p)
        \/ RegisterSelect(p)
        \/ LoginStart(p)
        \/ LoginValidate(p)
        \/ LoginSelect(p)
        \/ LoginDelete(p)
        \/ LoginInsert(p)
        \/ LoginCommit(p)
        \/ LogoutStart(p)
        \/ CreateStart(p)
        \/ ListStart(p)
        \/ GetStart(p)
        \/ UpdateStart(p)
        \/ DeleteStart(p)
        \/ GuardSelect(p)
        \/ GuardCheck(p)
        \/ GuardCall(p)
        \/ LogoutDelete(p)
        \/ LogoutCommit(p)
        \/ CreateValidate(p)
        \/ CreateInsert(p)
        \/ CreateCommit(p)
        \/ CreateFetch(p)
        \/ ListSelect(p)
        \/ GetSelect(p)
        \/ UpdateSelect(p)
        \/ UpdateSave(p)
        \/ UpdateExec(p)
        \/ UpdateCommit(p)
        \/ UpdateFetch(p)
        \/ DeleteSelect(p)
        \/ DeleteExec(p)
        \/ DeleteCommit(p)
        \/ StorageFails(p)
        \/ Finish(p)

SpecFaults == InitIncidents /\ [][NextFaults]_vars

-----------------------------------------------------------------------------
(* Properties *)

\* slot p takes a step
Steps(p) == pc'[p] # pc[p]

\* the guard of slot p looks its token up in this step (line 80)
Looks(p) == pc[p] = "guard_select" /\ Steps(p)

\* the guard of slot p reads the clock and compares the age of the token it
\* found with the window in this step (lines 90-93)
Checks(p) == pc[p] = "guard_check" /\ Steps(p)

\* a step of the guard of slot p that can give its verdict
Validates(p) == Looks(p) \/ Checks(p)

\* no stored token record carries this token
Revoked(tok) == \A r \in api_tokens : r.token # tok

\* the issue time of the token record the guard of slot p found
IssuedAt(p) == loc[p].result[2]

\* the guard rejected the request of slot p with 401 and did not call the handler
Rejected401(p) == pc'[p] = "done" /\ resp'[p] = 401 /\ loc'[p].user_id = None

\* a later login of the same user has committed after the login that returned tok
Superseded(tok) ==
    \E i, j \in 1..Len(hist) :
        i < j /\ hist[i].token = tok /\ hist[j].user_id = hist[i].user_id

\* whole seconds of a clock value
Seconds(t) == t \div TicksPerSecond
WindowSeconds == WindowHours * 3600

\* C1: in every reachable state the Token Store holds at most one token record
\* per user, whatever the interleaving of register, login and logout requests
C1_OneTokenPerUser ==
    \A a, b \in api_tokens : a.user_id = b.user_id => a = b

\* two logins of the same user ran at the same time: one returned its token, the
\* other lost on the UNIQUE user_id
C1_Witness ==
    /\ pc["r1"] = "done" /\ pc["r2"] = "done"
    /\ req["r1"].op = "login" /\ req["r2"].op = "login"
    /\ req["r1"].username = req["r2"].username
    /\ {resp["r1"], resp["r2"]} = {200, 500}
    /\ Cardinality(api_tokens) = 1

\* the routes behind token_required
Protected == {"logout", "create", "list", "get", "update", "delete"}

\* the login that returned tok is the latest committed login of its user
Latest(tok) ==
    \E i \in 1..Len(hist) :
        /\ hist[i].token = tok
        /\ \A j \in (i + 1)..Len(hist) : hist[j].user_id # hist[i].user_id

\* C2: once a later login of the same user has succeeded, the token of the
\* earlier login is gone from the Token Store and every lookup of it by the
\* guard ends with 401 without calling the handler; the token of the latest
\* login of a user is stored, the guard finds it, and within its window the
\* guard calls the handler for that user
C2_FirstTokenDead ==
    /\ [](\A i \in 1..Len(hist) :
            IF Superseded(hist[i].token)
            THEN \A r \in api_tokens : r.token # hist[i].token
            ELSE hist[i] \in api_tokens)
    /\ [][\A p \in Procs : Looks(p) /\ Superseded(token[p]) => Rejected401(p)]_vars
    /\ [][\A p \in Procs :
            /\ (Looks(p) /\ Latest(token[p])) => pc'[p] = "guard_check"
            /\ (Checks(p) /\ Latest(token[p])
                    /\ clock <= IssuedAt(p) + WindowTicks) => pc'[p] = "guard_call"
            /\ (pc[p] = "guard_call" /\ Steps(p) /\ Latest(token[p]))
                   => /\ pc'[p] = "handler"
                      /\ \E i \in 1..Len(hist) :
                           hist[i].token = token[p] /\ hist[i].user_id = loc'[p].user_id]_vars

\* a user logged in twice, time passed, and the guard called the handler of a
\* request that presented the second token, the first being gone from the store
C2_Witness ==
    \E p \in Procs : \E i, j \in 3..Len(hist) :
        /\ i < j /\ hist[i].user_id = hist[j].user_id
        /\ pc[p] = "handler" /\ token[p] = hist[j].token
        /\ loc[p].user_id = hist[j].user_id
        /\ loc[p].now > hist[j].created_at
        /\ hist[i] \notin api_tokens

\* the age the guard compares with the window, in whole seconds
AgeSeconds(now, created_at) == Seconds(now) - Seconds(created_at)

\* C3 as stated: a token issued at t0 and still stored validates at every check
\* time in [t0, t0+24h] and is rejected with 401 at every check time > t0+24h
C3_AsStated ==
    [][\A p \in Procs : (Checks(p) /\ ~ Revoked(token[p])) =>
        /\ (IssuedAt(p) <= clock /\ clock <= IssuedAt(p) + WindowTicks)
               => pc'[p] = "guard_call"
        /\ clock > IssuedAt(p) + WindowTicks => Rejected401(p)]_vars

\* C3 as amended: the check time is the time the guard reads the clock, after
\* its lookup.  With both times cut to whole seconds, a stored token validates
\* exactly when now - issued <= 24h and is rejected with 401 otherwise; so it
\* validates at every check time in [t0, t0+24h] and is rejected at every check
\* time >= t0+24h+1s; a validated request is handed to its handler with the
\* user of the token, and a handler runs only for a request that validated
C3_WholeSeconds ==
    /\ [][\A p \in Procs : (Checks(p) /\ ~ Revoked(token[p])) =>
            /\ AgeSeconds(clock, IssuedAt(p)) <= WindowSeconds => pc'[p] = "guard_call"
            /\ AgeSeconds(clock, IssuedAt(p)) > WindowSeconds => Rejected401(p)
            /\ (IssuedAt(p) <= clock /\ clock <= IssuedAt(p) + WindowTicks)
                   => pc'[p] = "guard_call"
            /\ clock >= IssuedAt(p) + WindowTicks + TicksPerSecond => Rejected401(p)]_vars
    /\ [][\A p \in Procs : (pc[p] = "guard_call" /\ Steps(p))
            => pc'[p] = "handler" /\ loc'[p].user_id = loc[p].result[1]]_vars
    /\ [](\A p \in Procs :
            (req[p].op \in Protected /\ loc[p].user_id # None)
                => /\ loc[p].now # -1
                   /\ AgeSeconds(loc[p].now, IssuedAt(p)) <= WindowSeconds)

\* the guard looked a token up less than 24h after it was issued, read the
\* clock exactly 24h after, and the handler was called
C3_Witness ==
    \E p \in Procs : \E r \in api_tokens :
        /\ r.token = token[p]
        /\ pc[p] = "handler"
        /\ loc[p].now = r.created_at + WindowTicks

\* C4: no step of the guard, from the receipt of the request to its verdict,
\* changes the Token Store, whether the token validates, is unknown or is
\* expired; the expired record stays and no issued-at time moves
C4_GuardReadsOnly ==
    [][\A p \in Procs :
        (Validates(p) \/ (pc[p] = "idle" /\ Steps(p) /\ req'[p].op \in Protected))
            => api_tokens' = api_tokens]_vars

\* a request was rejected because its token had expired, and the expired record
\* is still in the Token Store
C4_Witness ==
    \E p \in Procs : \E r \in api_tokens :
        /\ r.token = token[p]
        /\ pc[p] = "done" /\ resp[p] = 401
        /\ loc[p].now # -1
        /\ AgeSeconds(loc[p].now, r.created_at) > WindowSeconds

NoCredential == {NoAuth, Auth(<<BEARER, SP>>), Auth(<<BEARER>>)}

\* C6: a request to a protected route without bearer credential ends with 401
\* (MissingToken) and its handler is not called
C6_MissingToken ==
    \A p \in Procs :
        (pc[p] = "done" /\ req[p].op \in Protected /\ req[p].auth \in NoCredential)
            => resp[p] = 401 /\ loc[p].user_id = None

\* C7: an update of an existing incident by an authenticated user who is not
\* its owner ends with 403 whatever fields or image it carries, and the incident
\* is unchanged; no transaction ever holds an update of somebody else's incident
C7_StrangerForbidden ==
    /\ [][\A p \in Procs :
            (InHandler(p, "update") /\ Steps(p) /\
                \E r \in incidents : r.incident_id = req[p].id /\ r.user_id # loc[p].user_id)
            => pc'[p] = "done" /\ resp'[p] = 403 /\ incidents' = incidents
                                /\ uploads' = uploads]_vars
    /\ [](\A p \in Procs : \A u \in tx[p].incUpd : u[1].user_id = loc[p].user_id)

\* bob's update of alice's incident, with a new title and an image, got 403
C7_Witness ==
    \E p \in Procs : \E r \in incidents :
        /\ pc[p] = "done" /\ req[p].op = "update" /\ resp[p] = 403
        /\ r.incident_id = req[p].id /\ r.user_id = Uuid(1)
        /\ req[p].auth = Auth(<<BEARER, SP, Uuid(4)>>)
        /\ req[p].form.title = "b" /\ req[p].image.has
        /\ r.title = "a" /\ r.image_url = NoUrl

\* C8: a create by an authenticated user with one of title, description, lat,
\* long absent or empty ends with 400 and the incidents are as before; no
\* transaction ever holds an incident with such a field
C8_IncompleteCreate ==
    /\ [][\A p \in Procs :
            (InHandler(p, "create") /\ Steps(p) /\
                \E f \in RequiredFields : req[p].form[f] \in {None, Empty})
            => pc'[p] = "done" /\ resp'[p] = 400 /\ incidents' = incidents]_vars
    /\ [](\A p \in Procs : \A r \in tx[p].incIns :
            \A f \in RequiredFields : r[f] \notin {None, Empty})

\* an authenticated create with an empty title got 400
C8_Witness ==
    \E p \in Procs :
        /\ pc[p] = "done" /\ req[p].op = "create" /\ resp[p] = 400
        /\ loc[p].now # -1 /\ token[p] \in {r.token : r \in api_tokens}
        /\ req[p].form.title = Empty
        /\ Cardinality(incidents) = 1

\* C9: a register whose username the SELECT finds in the Credential Store ends
\* with 409 whatever its password, and the Credential Store is as before
C9_DuplicateConflict ==
    [][\A p \in Procs :
        (pc[p] = "reg_select" /\ Steps(p) /\ \E r \in users : r.username = req[p].username)
            => pc'[p] = "done" /\ resp'[p] = 409 /\ users' = users]_vars

\* a register of a taken username with another password got 409
C9_Witness ==
    \E p \in Procs : \E r \in users :
        /\ pc[p] = "done" /\ req[p].op = "register" /\ resp[p] = 409
        /\ r.username = req[p].username
        /\ r.password_hash # <<"scrypt", req[p].password>>
        /\ Cardinality(users) = 1

\* C10: when two well-formed registers of the same username have both ended
\* and one of them created the user, there is exactly one user of that name and
\* the other ended with 409
C10_RegisterRace ==
    (/\ pc["r1"] = "done" /\ pc["r2"] = "done"
     /\ req["r1"].op = "register" /\ req["r2"].op = "register"
     /\ req["r1"].username = req["r2"].username
     /\ req["r1"].password \in Passwords /\ req["r2"].password \in Passwords
     /\ 201 \in {resp["r1"], resp["r2"]})
    => /\ Cardinality({r \in users : r.username = req["r1"].username}) = 1
       /\ {resp["r1"], resp["r2"]} = {201, 409}

\* no committed incident has this id
Absent(id) == \A r \in incidents : r.incident_id # id

\* C11: a delete whose SELECT finds the incident goes on to the DELETE whoever
\* the caller is, ends with 200, and its commit removes the rows of that id and
\* no other row; an id once created and then absent stays absent, so it is in no
\* later list, and a get that looks it up then is answered 404
C11_DeletedStaysGone ==
    /\ [][\A p \in Procs :
            /\ (InHandler(p, "delete") /\ Steps(p) /\ ~ Absent(req[p].id))
                   => pc'[p] = "delete_exec"
            /\ (pc[p] = "delete_exec" /\ Steps(p)) => pc'[p] = "delete_commit"
            /\ (pc[p] = "delete_commit" /\ Steps(p))
                   => /\ pc'[p] = "done" /\ resp'[p] = 200
                      /\ incidents' = {r \in incidents : r.incident_id # req[p].id}
            /\ (InHandler(p, "get") /\ Steps(p) /\ Absent(req[p].id))
                   => pc'[p] = "done" /\ resp'[p] = 404]_vars
    /\ [][\A id \in everIds : Absent(id) => Absent(id)']_vars

\* bob deleted alice's incident and got 200; the get of that id got 404
C11_Witness ==
    \E p, q \in Procs :
        /\ pc[q] = "done" /\ req[q].op = "delete" /\ resp[q] = 200
        /\ req[q].id = Uuid(5) /\ loc[q].user_id = Uuid(2)
        /\ pc[p] = "done" /\ req[p].op = "get" /\ resp[p] = 404
        /\ req[p].id = Uuid(5)
        /\ incidents = {}

\* C12: a login for a username that is not registered and a login with a
\* wrong password for a registered username end the same way, with 401 and the
\* one message, and neither changes the Token Store nor leaves a transaction:
\* a token the user holds stays
C12_UniformLoginFailure ==
    [][\A p \in Procs :
        (pc[p] = "login_select" /\ Steps(p) /\
            \A r \in users : r.username = req[p].username
                                 => r.password_hash # <<"scrypt", req[p].password>>)
        => /\ pc'[p] = "done" /\ resp'[p] = 401
           /\ loc'[p].message = "Invalid username or password."
           /\ loc'[p].user_id = None
           /\ api_tokens' = api_tokens
           /\ tx'[p] = NoTx]_vars

\* one login with a wrong password for a user who holds a token, one login for
\* an unregistered username: the two responses are equal and the token is there
C12_Witness ==
    \E p, q \in Procs :
        /\ pc[p] = "done" /\ req[p].op = "login" /\ pc[q] = "done" /\ req[q].op = "login"
        /\ \E r \in users : r.username = req[p].username
                            /\ \E t \in api_tokens : t.user_id = r.user_id
        /\ \A r \in users : r.username # req[q].username
        /\ resp[p] = 401 /\ resp[q] = resp[p]
        /\ loc[p].message # None /\ loc[q].message = loc[p].message

\* C13: the commit of a logout ends the request with 200 and removes the record
\* of the presented token and no other record, so a newer token of the same
\* user and the tokens of other users stay as they are; a token a login
\* returned and that is no longer stored is never stored again, so the guard
\* rejects it with 401
C13_LogoutRemovesOwnToken ==
    /\ [][\A p \in Procs :
            (pc[p] = "logout_commit" /\ Steps(p))
            => /\ pc'[p] = "done" /\ resp'[p] = 200
               /\ api_tokens' = {r \in api_tokens : r.token # token[p]}
               /\ Revoked(token[p])']_vars
    /\ [][\A i \in 1..Len(hist) : Revoked(hist[i].token) => Revoked(hist[i].token)']_vars
    /\ [][\A p \in Procs : (Looks(p) /\ Revoked(token[p])) => Rejected401(p)]_vars

\* a login of the same user committed between the logout's validation and its
\* DELETE: the DELETE matched nothing, the newer token is stored and so is the
\* token of the other user
C13_Witness ==
    \E p \in Procs : \E i, j \in 1..Len(hist) :
        /\ pc[p] = "logout_commit" /\ tx[p].tokDel = {}
        /\ hist[i].token = token[p] /\ hist[i].user_id = loc[p].user_id
        /\ i < j /\ hist[j].user_id = loc[p].user_id
        /\ hist[j] \in api_tokens
        /\ \E b \in api_tokens : b.user_id # loc[p].user_id

\* C14, for create: when a create has ended with 500, no record written by
\* the request remains: no incident with the id the request drew is stored
C14_FailedLeavesNoWrite ==
    \A p \in Procs :
        (pc[p] = "done" /\ req[p].op = "create" /\ resp[p] = 500)
            => \A r \in incidents : r.incident_id # loc[p].incident_id

\* C15: a request holds at most one open connection at every point of its
\* handling
C15_OneConnection == \A p \in Procs : Cardinality(conns[p]) <= 1

\* C16: the step that returns the response of a request leaves none of its
\* connections open, whatever the status, and a slot that has answered or
\* serves no request holds no connection and no transaction
C16_ConnectionsReleased ==
    /\ [][\A p \in Procs : (pc'[p] = "done" /\ Steps(p)) => conns'[p] = {}]_vars
    /\ [](\A p \in Procs : pc[p] \in {"idle", "done"} => conns[p] = {} /\ tx[p] = NoTx)

\* an update that passed the guard and the ownership check failed in the
\* storage and was answered 500: the guard's and the handler's connections are
\* closed
C16_Witness ==
    \E p \in Procs :
        /\ pc[p] = "done" /\ req[p].op = "update" /\ resp[p] = 500
        /\ loc[p].user_id = Uuid(1) /\ loc[p].image_url # NoUrl
        /\ conns[p] = {}

\* the file an image reference points to
StoredFile(image_url) == SubSeq(image_url, 2, Len(image_url))

\* C17: the commit of an update gives the incident the supplied value in every
\* supplied field, a reference to the newly stored file when an image is
\* supplied, and leaves its other fields, its id, owner and creation time, and
\* all other incidents as they were
C17_ExactlySupplied ==
    [][\A p \in Procs :
        (pc[p] = "update_commit" /\ Steps(p))
        => /\ Cardinality(incidents') = Cardinality(incidents)
           /\ \A r \in incidents :
                IF r.incident_id # req[p].id
                THEN r \in incidents'
                ELSE \E n \in incidents' :
                        /\ n.incident_id = r.incident_id
                        /\ n.user_id = r.user_id
                        /\ n.created_at = r.created_at
                        /\ \A f \in RequiredFields :
                             n[f] = IF req[p].form[f] # None THEN req[p].form[f] ELSE r[f]
                        /\ IF req[p].image.has
                           THEN /\ n.image_url \notin {NoUrl, r.image_url}
                                /\ StoredFile(n.image_url) \in uploads
                           ELSE n.image_url = r.image_url]_vars

\* the characters of a file name after its last dot, none when it has no dot
Extension(name) ==
    IF \E i \in 1..Len(name) : name[i] = "."
    THEN LET i == CHOOSE k \in 1..Len(name) :
                      name[k] = "." /\ \A j \in (k + 1)..Len(name) : name[j] # "."
         IN [j \in 1..(Len(name) - i) |-> name[i + j]]
    ELSE <<>>

\* C18: a create with the four required fields present and an image whose name
\* has no extension among png, jpg, jpeg, gif, upper or lower case, ends with
\* 400, inserts no incident, stores no file and leaves no transaction; the same
\* request with such an extension in either case is not rejected
C18_InvalidFileType ==
    [][\A p \in Procs :
        (InHandler(p, "create") /\ Steps(p)
            /\ (\A f \in RequiredFields : req[p].form[f] \notin {None, Empty})
            /\ req[p].image.has /\ req[p].image.filename # <<>>)
        => IF Lower(Extension(req[p].image.filename)) \in
                  {<<"p", "n", "g">>, <<"j", "p", "g">>, <<"j", "p", "e", "g">>, <<"g", "i", "f">>}
           THEN pc'[p] = "create_insert"
           ELSE /\ pc'[p] = "done" /\ resp'[p] = 400
                /\ incidents' = incidents /\ uploads' = uploads
                /\ tx'[p] = NoTx]_vars

\* a create with all four fields and the image p.exe got 400; nothing is stored
C18_Witness ==
    \E p \in Procs :
        /\ pc[p] = "done" /\ req[p].op = "create" /\ resp[p] = 400
        /\ loc[p].now # -1
        /\ req[p].form = FullForm
        /\ req[p].image = Image(P_EXE)
        /\ uploads = {} /\ Cardinality(incidents) = 1

\* C19: a login whose SELECT found the user and whose password matched ends
\* with 200; when two logins of one user have both ended with 200, one token of
\* that user is stored
C19_LoginNeverFails ==
    /\ \A p \in Procs :
        (pc[p] = "done" /\ req[p].op = "login"
            /\ \E r \in users :
                 /\ r.user_id = loc[p].user_id
                 /\ r.username = req[p].username
                 /\ r.password_hash = <<"scrypt", req[p].password>>)
        => resp[p] = 200
    /\ (/\ pc["r1"] = "done" /\ pc["r2"] = "done"
        /\ req["r1"].op = "login" /\ req["r2"].op = "login"
        /\ req["r1"].username = req["r2"].username
        /\ resp["r1"] = 200 /\ resp["r2"] = 200)
       => \E u \in users :
            /\ u.username = req["r1"].username
            /\ Cardinality({t \in api_tokens : t.user_id = u.user_id}) = 1

\* C20 as stated: the commit of a create, an update or a delete whose token is
\* no longer stored changes no incident
C20_NoWriteForDeadToken ==
    [][\A p \in Procs :
        (pc[p] \in {"create_commit", "update_commit", "delete_commit"} /\ Steps(p)
            /\ Revoked(token[p]))
        => incidents' = incidents]_vars

\* C20 as amended: the token is looked up once, by the guard.  A request whose
\* token is not stored at that lookup is rejected with 401 and changes no
\* incident.  The commit of a handler the guard has called takes effect for
\* the validated user whether or not the token is still stored: after the
\* commit of a create an incident with the submitted fields, the drawn id and
\* the validated user is stored that was not there before, after the commit of
\* an update the incident of that id carries every supplied field, and after
\* the commit of a delete no incident of that id is stored
C20_ValidatedOnce ==
    /\ [][\A p \in Procs :
            /\ (Looks(p) /\ Revoked(token[p]))
                   => Rejected401(p) /\ incidents' = incidents
            /\ (pc[p] = "create_commit" /\ Steps(p))
                   => \E r \in incidents' \ incidents :
                        /\ r.incident_id = loc[p].incident_id
                        /\ r.user_id = loc[p].result[1]
                        /\ \A f \in RequiredFields : r[f] = req[p].form[f]
            /\ (pc[p] = "update_commit" /\ Steps(p))
                   => \A r \in incidents : r.incident_id = req[p].id
                        => \E n \in incidents' :
                             /\ n.incident_id = req[p].id
                             /\ \A f \in RequiredFields :
                                  req[p].form[f] # None => n[f] = req[p].form[f]
            /\ (pc[p] = "delete_commit" /\ Steps(p))
                   => \A r \in incidents' : r.incident_id # req[p].id]_vars
    /\ [](\A p \in Procs :
            pc[p] \in {"guard_select", "guard_check", "guard_call", "handler"}
                => tx[p] = NoTx)

\* alice's token was replaced by a newer login of hers after the guard had
\* validated it for her create and before the create committed: the incident
\* is stored for her, and so is her newer token
C20_Witness ==
    \E p \in Procs : \E j \in 3..Len(hist) :
        /\ pc[p] = "done" /\ req[p].op = "create" /\ resp[p] = 201
        /\ loc[p].stale
        /\ hist[j].user_id = loc[p].user_id /\ hist[j].token # token[p]
        /\ hist[j] \in api_tokens
        /\ \E r \in incidents :
             r.incident_id = loc[p].incident_id /\ r.user_id = loc[p].user_id

\* C21: when two deletes of the same incident, both called by the guard, have
\* ended, one was answered 200 and the other 404
C21_OneDeleteSucceeds ==
    (/\ pc["r1"] = "done" /\ pc["r2"] = "done"
     /\ req["r1"].op = "delete" /\ req["r2"].op = "delete"
     /\ req["r1"].id = req["r2"].id /\ req["r1"].id \in everIds
     /\ loc["r1"].user_id # None /\ loc["r2"].user_id # None)
    => {resp["r1"], resp["r2"]} = {200, 404}

\* C22: when a create has ended with 400 or 500, the file it stored, if any, is
\* not in the upload directory
C22_FailedCreateStoresNoFile ==
    \A p \in Procs :
        (pc[p] = "done" /\ req[p].op = "create" /\ resp[p] \in {400, 500})
            => \A f \in uploads : ImageUrl(f) # loc[p].image_url

====
